---- MODULE Spec2Model ----
(***************************************************************************)
(* Log watcher with alerts (src/log_watcher_with_alerts/main.py).          *)
(*                                                                         *)
(* Three threads share one Tailer object:                                  *)
(*   - the main thread (main(): existence check, Tailer construction,      *)
(*     observer.start(), the priming call tailer.start(), the sleep loop   *)
(*     and the shutdown sequence of the finally block);                    *)
(*   - the watch-callback thread of the observer (on_modified/on_created); *)
(*   - the dispatcher thread (Tailer._process_queue / send_alert).         *)
(* The environment appends to, truncates, deletes and recreates the file.  *)
(*                                                                         *)
(* The file is a sequence of one-character strings; NL is the newline.     *)
(* Offsets are 0-based character counts, as tell()/seek() use them.        *)
(***************************************************************************)
EXTENDS Integers, Sequences, FiniteSets, TLC

\* ---------------------------------------------------------------- bounds
\* Environment operations in a run of the detection side (SpecTail) and in a
\* run of the whole program (Spec).
MaxEnvOps == 2
WholeEnvOps == 1
\* Environment operations in a run in which the path is unlinked, created
\* and unlinked again (SpecGone).
GoneEnvOps == 3

NL == "\n"
Alphabet == {"E", "i", NL}

\* The compiled pattern is a literal searched anywhere in the line.
Patterns == {<<"E">>, <<"i", "E">>}

Threads == {"main", "watch"}

\* Tailer.path, and another file of the watched directory.
WatchedPath == "app.log"
Paths == {WatchedPath, "other.log"}

\* Contents of the log file at startup, and of a file that replaces it.
TailFiles == {<<>>, <<"E">>, <<"i", NL, "E", NL, "i", "E">>}
WholeFiles == {<<"E", NL>>}
NewFiles == {<<>>, <<"i", "E", NL>>}

VARIABLES
    file,            \* content of the inode the watched path names
    exists,          \* whether the watched path exists
    pattern,         \* AlertConfig.pattern
    config,          \* AlertConfig.webhook / slack_token / slack_channel (set or not)
    position,        \* Tailer.position
    queue,           \* Tailer._queue: the lines put and not yet got, each with the
                     \* number of the put that made it (the identity of the object)
    stop_event,      \* Tailer._stop_event
    pcMain,          \* where the main thread is in main()
    observer,        \* the observer (watch service) thread
    pendingCreated,  \* created events of the watched path not yet delivered
    rd,              \* per thread: the _read_new_lines call in progress
    pcDisp,          \* where the dispatcher thread is in _process_queue
    line,            \* the local `line` of _process_queue
    envLeft,         \* number of environment operations still to come
    pushed,          \* history: every line put on the queue, in order
    taken,           \* history: every message the dispatcher got, in order
    whLog,           \* history: the messages posted to the webhook, in order
    slLog,           \* history: the messages posted to Slack, in order
    firstFail,       \* history: destination and message number of the first failed delivery
    writers,         \* history: threads that assigned Tailer.position after construction
    calm,            \* history: some call of _read_new_lines has returned and the
                     \* file is as it was when that call opened it
    ignored,         \* history: a callback was called for another path
    cut,             \* history: the length the file was last truncated to; -1 when
                     \* it was never truncated, -2 once the path was unlinked
    lateGets         \* history: messages the dispatcher got with the stop event set

vars == <<file, exists, pattern, config, position, queue, stop_event, pcMain,
          observer, pendingCreated, rd, pcDisp, line, envLeft, pushed, taken,
          whLog, slLog, firstFail, writers, calm, ignored, cut, lateGets>>

envVars == <<file, exists, pendingCreated, envLeft, cut>>
dispVars == <<pcDisp, line, taken, whLog, slLog, firstFail, lateGets>>
histVars == <<pushed, writers, calm, ignored>>

\* -------------------------------------------------------- pure functions

\* str.rstrip("\n"): drop every trailing newline.
RECURSIVE RStripNL(_)
RStripNL(s) ==
    IF s # <<>> /\ s[Len(s)] = NL THEN RStripNL(SubSeq(s, 1, Len(s) - 1)) ELSE s

\* re.Pattern.match in the place of search: the literal only at the start.
SearchAnchored(pat, l) == Len(l) >= Len(pat) /\ SubSeq(l, 1, Len(pat)) = pat

\* A test that every line passes.
SearchAlways(pat, l) == TRUE

\* re.Pattern.search for a literal: the literal occurs somewhere in the line.
Search(pat, l) ==
    \E i \in 1..(Len(l) - Len(pat) + 1) : SubSeq(l, i, i + Len(pat) - 1) = pat

\* Offset just after the line that starts at offset c: past its newline, or
\* the end of the content when no newline follows.
NextLineEnd(content, c) ==
    LET nls == {j \in (c + 1)..Len(content) : content[j] = NL}
    IN  IF nls = {} THEN Len(content)
        ELSE CHOOSE j \in nls : \A k \in nls : j <= k

\* What one step of `for line in handle` returns at offset c (c < Len(content)).
RawLine(content, c) == SubSeq(content, c + 1, NextLineEnd(content, c))

\* A get that takes the newest item.
QueueGetNewest(q) == [item |-> q[Len(q)], rest |-> SubSeq(q, 1, Len(q) - 1)]

\* A get that returns the oldest item and leaves it in the queue.
QueuePeek(q) == [item |-> Head(q), rest |-> q]

\* queue.Queue.put and queue.Queue.get: first in, first out.
QueuePut(q, m) == Append(q, m)
QueueGet(q) == [item |-> Head(q), rest |-> Tail(q)]

\* ------------------------------------------------------------- the reader

Idle == [pc |-> "idle", kind |-> "none", cursor |-> 0, start |-> 0,
         detached |-> FALSE, orphan |-> <<>>, stable |-> FALSE,
         quiet |-> FALSE, out |-> <<>>]

\* The content the open handle of thread t reads: the inode it opened.
HandleContent(t) == IF rd[t].detached THEN rd[t].orphan ELSE file

HandleOpen(t) == rd[t].pc \in {"seek", "iter", "tell"}

\* Process exit ends every thread (the worker threads are daemon threads).
Alive == pcMain \notin {"failed", "crashed", "done"}

\* A call of _read_new_lines by thread t is entered.
Enter(t, kind) ==
    [Idle EXCEPT !.pc = "open", !.kind = kind, !.quiet = calm]

\* line 53: self.path.open(...). A missing path raises out of the call.
OpenOk(t) ==
    /\ Alive
    /\ rd[t].pc = "open"
    /\ exists
    /\ rd' = [rd EXCEPT ![t].pc = "seek", ![t].stable = TRUE]
    /\ UNCHANGED <<envVars, pattern, config, position, queue, stop_event, pcMain,
                   observer, dispVars, histVars>>

\* A callback that catches the error of the open and returns.
OpenFailsCaught(t) ==
    /\ Alive
    /\ rd[t].pc = "open"
    /\ ~exists
    /\ rd' = [rd EXCEPT ![t] = Idle]
    /\ IF t = "main"
       THEN pcMain' = "crashed" /\ UNCHANGED observer
       ELSE UNCHANGED <<observer, pcMain>>
    /\ UNCHANGED <<envVars, pattern, config, position, queue, stop_event,
                   dispVars, histVars>>

\* line 53 raising FileNotFoundError: nothing in _read_new_lines or in the
\* callbacks (lines 35-43) catches it. In the priming call it ends main()
\* (line 128 is outside the try); in a callback it ends the observer thread,
\* whose event loop does not catch a handler's exception.
OpenFails(t) ==
    /\ Alive
    /\ rd[t].pc = "open"
    /\ ~exists
    /\ rd' = [rd EXCEPT ![t] = Idle]
    /\ IF t = "main"
       THEN pcMain' = "crashed" /\ UNCHANGED observer
       ELSE observer' = "dead" /\ UNCHANGED pcMain
    /\ UNCHANGED <<envVars, pattern, config, position, queue, stop_event,
                   dispVars, histVars>>

\* line 54: handle.seek(self.position)
Seek(t) ==
    /\ Alive
    /\ rd[t].pc = "seek"
    /\ rd' = [rd EXCEPT ![t].pc = "iter", ![t].cursor = position,
                        ![t].start = position]
    /\ UNCHANGED <<envVars, pattern, config, position, queue, stop_event, pcMain,
                   observer, dispVars, histVars>>

\* The loop body with a queue of capacity 1, whose put waits while it is full.
ReadLineBounded(t) ==
    /\ Alive
    /\ rd[t].pc = "iter"
    /\ rd[t].cursor < Len(HandleContent(t))
    /\ LET content == HandleContent(t)
           l == RStripNL(RawLine(content, rd[t].cursor))
           hit == Search(pattern, l)
       IN  /\ hit => Len(queue) < 1
           /\ rd' = [rd EXCEPT ![t].cursor = NextLineEnd(content, rd[t].cursor),
                               ![t].out = IF hit THEN Append(@, l) ELSE @]
           /\ queue' = IF hit
                       THEN QueuePut(queue, [id |-> Len(pushed) + 1, text |-> l])
                       ELSE queue
           /\ pushed' = IF hit THEN Append(pushed, l) ELSE pushed
    /\ UNCHANGED <<envVars, pattern, config, position, stop_event, pcMain,
                   observer, dispVars, writers, calm, ignored>>

\* A loop body that puts only lines that end with a newline.
ReadLineCompleteOnly(t) ==
    /\ Alive
    /\ rd[t].pc = "iter"
    /\ rd[t].cursor < Len(HandleContent(t))
    /\ LET content == HandleContent(t)
           raw == RawLine(content, rd[t].cursor)
           l == RStripNL(raw)
           hit == Search(pattern, l) /\ raw[Len(raw)] = NL
       IN  /\ rd' = [rd EXCEPT ![t].cursor = NextLineEnd(content, rd[t].cursor),
                               ![t].out = IF hit THEN Append(@, l) ELSE @]
           /\ queue' = IF hit
                       THEN QueuePut(queue, [id |-> Len(pushed) + 1, text |-> l])
                       ELSE queue
           /\ pushed' = IF hit THEN Append(pushed, l) ELSE pushed
    /\ UNCHANGED <<envVars, pattern, config, position, stop_event, pcMain,
                   observer, dispVars, writers, calm, ignored>>

\* lines 55-58: one iteration of `for line in handle`: read the next line,
\* strip its newline, put it on the queue when the pattern is found in it.
ReadLine(t) ==
    /\ Alive
    /\ rd[t].pc = "iter"
    /\ rd[t].cursor < Len(HandleContent(t))
    /\ LET content == HandleContent(t)
           l == RStripNL(RawLine(content, rd[t].cursor))
           hit == Search(pattern, l)
       IN  /\ rd' = [rd EXCEPT ![t].cursor = NextLineEnd(content, rd[t].cursor),
                               ![t].out = IF hit THEN Append(@, l) ELSE @]
           /\ queue' = IF hit
                       THEN QueuePut(queue, [id |-> Len(pushed) + 1, text |-> l])
                       ELSE queue
           /\ pushed' = IF hit THEN Append(pushed, l) ELSE pushed
    /\ UNCHANGED <<envVars, pattern, config, position, stop_event, pcMain,
                   observer, dispVars, writers, calm, ignored>>

\* line 55: the iteration ends when the handle is at (or beyond) end of file.
ReadEof(t) ==
    /\ Alive
    /\ rd[t].pc = "iter"
    /\ rd[t].cursor >= Len(HandleContent(t))
    /\ rd' = [rd EXCEPT ![t].pc = "tell"]
    /\ UNCHANGED <<envVars, pattern, config, position, queue, stop_event, pcMain,
                   observer, dispVars, histVars>>

\* Offset just after the last newline at or before offset c.
LastNewline(content, c) ==
    LET nls == {j \in 1..c : j <= Len(content) /\ content[j] = NL}
    IN  IF nls = {} THEN 0 ELSE CHOOSE j \in nls : \A k \in nls : k <= j

\* A call that leaves position at the end of the last complete line.
TellAtLastNewline(t) ==
    /\ Alive
    /\ rd[t].pc = "tell"
    /\ position' = LastNewline(HandleContent(t), rd[t].cursor)
    /\ writers' = writers \cup {t}
    /\ calm' = (calm \/ rd[t].stable)
    /\ rd' = [rd EXCEPT ![t] = Idle]
    /\ pcMain' = IF t = "main" THEN "sleep" ELSE pcMain
    /\ UNCHANGED <<envVars, pattern, config, queue, stop_event, observer,
                   dispVars, pushed, ignored>>

\* line 59: self.position = handle.tell(); the handle is closed and the call
\* returns (to main() for the priming call, to the observer for a callback).
Tell(t) ==
    /\ Alive
    /\ rd[t].pc = "tell"
    /\ position' = rd[t].cursor
    /\ writers' = writers \cup {t}
    /\ calm' = (calm \/ rd[t].stable)
    /\ rd' = [rd EXCEPT ![t] = Idle]
    /\ pcMain' = IF t = "main" THEN "sleep" ELSE pcMain
    /\ UNCHANGED <<envVars, pattern, config, queue, stop_event, observer,
                   dispVars, pushed, ignored>>

\* ------------------------------------------------------------ environment

\* What an environment operation does to the history of the calls in
\* progress: the file is no longer as they opened it.
Disturbed == [t \in Threads |-> [rd[t] EXCEPT !.stable = FALSE, !.quiet = FALSE]]

\* Unlinking the path leaves an open handle on the old inode.
Unlinked ==
    [t \in Threads |->
        IF HandleOpen(t) /\ ~rd[t].detached
        THEN [Disturbed[t] EXCEPT !.detached = TRUE, !.orphan = file]
        ELSE Disturbed[t]]

\* The environment is followed while the process runs, for a bounded number
\* of operations.
EnvActive == Alive /\ envLeft > 0

EnvAppend(c) ==
    /\ EnvActive
    /\ exists
    /\ file' = Append(file, c)
    /\ envLeft' = envLeft - 1
    /\ cut' = cut
    /\ rd' = Disturbed
    /\ calm' = FALSE
    /\ UNCHANGED <<exists, pendingCreated, pattern, config, position, queue,
                   stop_event, pcMain, observer, dispVars, pushed, writers, ignored>>

EnvTruncate(n) ==
    /\ EnvActive
    /\ exists
    /\ n < Len(file)
    /\ file' = SubSeq(file, 1, n)
    /\ envLeft' = envLeft - 1
    /\ cut' = IF cut = -2 THEN -2 ELSE n
    /\ rd' = Disturbed
    /\ calm' = FALSE
    /\ UNCHANGED <<exists, pendingCreated, pattern, config, position, queue,
                   stop_event, pcMain, observer, dispVars, pushed, writers, ignored>>

EnvDelete ==
    /\ EnvActive
    /\ exists
    /\ exists' = FALSE
    /\ file' = <<>>
    /\ envLeft' = envLeft - 1
    /\ cut' = -2
    /\ rd' = Unlinked
    /\ calm' = FALSE
    /\ UNCHANGED <<pendingCreated, pattern, config, position, queue,
                   stop_event, pcMain, observer, dispVars, pushed, writers, ignored>>

EnvCreate(f) ==
    /\ EnvActive
    /\ ~exists
    /\ exists' = TRUE
    /\ file' = f
    /\ envLeft' = envLeft - 1
    /\ cut' = cut
    /\ pendingCreated' = IF observer = "running" THEN pendingCreated + 1
                         ELSE pendingCreated
    /\ rd' = Disturbed
    /\ calm' = FALSE
    /\ UNCHANGED <<pattern, config, position, queue, stop_event, pcMain,
                   observer, dispVars, pushed, writers, ignored>>

\* ------------------------------------------------------------ main thread

\* A main() without the existence test.
MainCheckSkipped ==
    /\ pcMain = "check"
    /\ pcMain' = "construct"
    /\ UNCHANGED <<envVars, pattern, config, position, queue, stop_event,
                   observer, rd, dispVars, histVars>>

\* lines 115-116: a missing log file ends the run before anything is built.
MainCheck ==
    /\ pcMain = "check"
    /\ pcMain' = IF exists THEN "construct" ELSE "failed"
    /\ UNCHANGED <<envVars, pattern, config, position, queue, stop_event,
                   observer, rd, dispVars, histVars>>

\* A Tailer that starts at the end of the file instead of offset 0.
MainConstructAtEnd ==
    /\ pcMain = "construct"
    /\ position' = Len(file)
    /\ queue' = <<>>
    /\ stop_event' = FALSE
    /\ pcDisp' = "check"
    /\ pcMain' = "observer_start"
    /\ UNCHANGED <<envVars, pattern, config, observer, rd, line, taken, whLog,
                   slLog, firstFail, lateGets, histVars>>

\* A constructor that does not start the dispatcher thread.
MainConstructNoThread ==
    /\ pcMain = "construct"
    /\ position' = 0
    /\ queue' = <<>>
    /\ stop_event' = FALSE
    /\ pcMain' = "observer_start"
    /\ UNCHANGED <<envVars, pattern, config, observer, rd, pcDisp, line, taken,
                   whLog, slLog, firstFail, lateGets, histVars>>

\* line 124, Tailer.__init__ (lines 26-33): the dispatcher thread is started.
MainConstruct ==
    /\ pcMain = "construct"
    /\ position' = 0
    /\ queue' = <<>>
    /\ stop_event' = FALSE
    /\ pcDisp' = "check"
    /\ pcMain' = "observer_start"
    /\ UNCHANGED <<envVars, pattern, config, observer, rd, line, taken, whLog,
                   slLog, firstFail, lateGets, histVars>>

\* lines 125-127: the observer thread starts watching the parent directory.
MainObserverStart ==
    /\ pcMain = "observer_start"
    /\ observer' = "running"
    /\ pcMain' = "priming"
    /\ UNCHANGED <<envVars, pattern, config, position, queue, stop_event, rd,
                   dispVars, histVars>>

\* line 128: tailer.start() calls _read_new_lines on the main thread.
MainPriming ==
    /\ pcMain = "priming"
    /\ rd["main"].pc = "idle"
    /\ rd' = [rd EXCEPT !["main"] = Enter("main", "priming")]
    /\ pcMain' = "in_priming"
    /\ UNCHANGED <<envVars, pattern, config, position, queue, stop_event,
                   observer, dispVars, histVars>>

\* lines 131-135: KeyboardInterrupt in the sleep loop.
MainInterrupt ==
    /\ pcMain = "sleep"
    /\ pcMain' = "observer_stop"
    /\ UNCHANGED <<envVars, pattern, config, position, queue, stop_event,
                   observer, rd, dispVars, histVars>>

\* line 137: observer.stop(): no further callback is started.
MainObserverStop ==
    /\ pcMain = "observer_stop"
    /\ observer' = IF observer = "running" THEN "stopped" ELSE observer
    /\ pcMain' = "observer_join"
    /\ UNCHANGED <<envVars, pattern, config, position, queue, stop_event, rd,
                   dispVars, histVars>>

\* line 138: observer.join(timeout=2) returns when the thread has ended or
\* the timeout has passed, whichever is first.
MainObserverJoin ==
    /\ pcMain = "observer_join"
    /\ pcMain' = "stop_set"
    /\ UNCHANGED <<envVars, pattern, config, position, queue, stop_event,
                   observer, rd, dispVars, histVars>>

\* line 139 / line 49: tailer.stop() sets the stop event.
MainStopSet ==
    /\ pcMain = "stop_set"
    /\ stop_event' = TRUE
    /\ pcMain' = "stop_join"
    /\ UNCHANGED <<envVars, pattern, config, position, queue, observer, rd,
                   dispVars, histVars>>

\* A join without timeout: it returns only when the dispatcher has exited.
MainStopJoinUnbounded ==
    /\ pcMain = "stop_join"
    /\ pcDisp = "exited"
    /\ pcMain' = "done"
    /\ UNCHANGED <<envVars, pattern, config, position, queue, stop_event,
                   observer, rd, dispVars, histVars>>

\* line 50: self._thread.join(timeout=2); main() returns and the process ends.
MainStopJoin ==
    /\ pcMain = "stop_join"
    /\ pcMain' = "done"
    /\ UNCHANGED <<envVars, pattern, config, position, queue, stop_event,
                   observer, rd, dispVars, histVars>>

\* ----------------------------------------------------- watch-callback thread

CanCall == Alive /\ observer = "running" /\ rd["watch"].pc = "idle"

\* An on_modified without the path test of lines 36-37.
OnModifiedAnyPath(p) ==
    /\ CanCall
    /\ rd' = [rd EXCEPT !["watch"] = Enter("watch", "modified")]
    /\ ignored' = (ignored \/ p # WatchedPath)
    /\ UNCHANGED <<envVars, pattern, config, position, queue, stop_event, pcMain,
                   observer, dispVars, pushed, writers, calm>>

\* lines 35-38: on_modified returns at once for another path, and otherwise
\* calls _read_new_lines.
OnModified(p) ==
    /\ CanCall
    /\ rd' = IF p # WatchedPath THEN rd
             ELSE [rd EXCEPT !["watch"] = Enter("watch", "modified")]
    /\ ignored' = (ignored \/ p # WatchedPath)
    /\ UNCHANGED <<envVars, pattern, config, position, queue, stop_event, pcMain,
                   observer, dispVars, pushed, writers, calm>>

\* lines 40-43: on_created for the watched path resets position, then calls
\* _read_new_lines; for another path it does nothing.
OnCreated(p) ==
    /\ CanCall
    /\ p = WatchedPath => pendingCreated > 0
    /\ IF p = WatchedPath
       THEN /\ pendingCreated' = pendingCreated - 1
            /\ position' = 0
            /\ writers' = writers \cup {"watch"}
            /\ rd' = [rd EXCEPT !["watch"] = Enter("watch", "created")]
       ELSE UNCHANGED <<pendingCreated, position, writers, rd>>
    /\ ignored' = (ignored \/ p # WatchedPath)
    /\ UNCHANGED <<file, exists, envLeft, cut, pattern, config, queue, stop_event,
                   pcMain, observer, dispVars, pushed, calm>>

\* ------------------------------------------------------- dispatcher thread

\* A loop that goes on after the stop event until the queue is empty.
DispCheckDrain ==
    /\ Alive
    /\ pcDisp = "check"
    /\ pcDisp' = IF stop_event /\ queue = <<>> THEN "exited" ELSE "get"
    /\ UNCHANGED <<envVars, pattern, config, position, queue, stop_event, pcMain,
                   observer, rd, line, taken, whLog, slLog, firstFail, lateGets, histVars>>

\* line 62: the loop condition of _process_queue.
DispCheck ==
    /\ Alive
    /\ pcDisp = "check"
    /\ pcDisp' = IF stop_event THEN "exited" ELSE "get"
    /\ UNCHANGED <<envVars, pattern, config, position, queue, stop_event, pcMain,
                   observer, rd, line, taken, whLog, slLog, firstFail, lateGets, histVars>>

\* A loop that ends (break) when the wait on an empty queue times out.
DispGetBreakOnEmpty ==
    /\ Alive
    /\ pcDisp = "get"
    /\ IF queue # <<>>
       THEN /\ line' = QueueGet(queue).item
            /\ queue' = QueueGet(queue).rest
            /\ taken' = Append(taken, QueueGet(queue).item)
            /\ pcDisp' = "webhook"
       ELSE /\ pcDisp' = "exited"
            /\ UNCHANGED <<line, queue, taken>>
    /\ lateGets' = IF stop_event /\ queue # <<>> THEN lateGets + 1 ELSE lateGets
    /\ UNCHANGED <<envVars, pattern, config, position, stop_event, pcMain,
                   observer, rd, whLog, slLog, firstFail, histVars>>

\* lines 63-66: self._queue.get(timeout=0.5): the oldest line, or queue.Empty
\* after the wait on an empty queue, which continues the loop.
DispGet ==
    /\ Alive
    /\ pcDisp = "get"
    /\ IF queue # <<>>
       THEN /\ line' = QueueGet(queue).item
            /\ queue' = QueueGet(queue).rest
            /\ taken' = Append(taken, QueueGet(queue).item)
            /\ pcDisp' = "webhook"
       ELSE /\ pcDisp' = "check"
            /\ UNCHANGED <<line, queue, taken>>
    /\ lateGets' = IF stop_event /\ queue # <<>> THEN lateGets + 1 ELSE lateGets
    /\ UNCHANGED <<envVars, pattern, config, position, stop_event, pcMain,
                   observer, rd, whLog, slLog, firstFail, histVars>>

\* The first failed delivery is remembered.
NoteFail(dest, ok) ==
    IF ok \/ firstFail.msg # 0 THEN firstFail
    ELSE [dest |-> dest, msg |-> Len(taken)]

\* The webhook post without its try/except: a failure ends the thread.
AfterWebhookUncaught(ok) == IF ok THEN "slack" ELSE "dead"

\* A send_alert that returns after the webhook post.
AfterWebhookReturn(ok) == "check"

\* lines 74-78: a RequestException raised by the webhook post (ok = FALSE) is
\* caught and reported, and send_alert goes on to the Slack part.
AfterWebhook(ok) == "slack"

\* A Slack post that is made again after a failure.
AfterSlackRetry(ok) == IF ok THEN "check" ELSE "slack"

\* lines 82-88: the same for the Slack post; send_alert returns, task_done
\* (line 68) is called and the loop test is next.
AfterSlack(ok) == "check"

\* lines 73-78 of send_alert: the webhook post, when a webhook is configured.
DispWebhook ==
    /\ Alive
    /\ pcDisp = "webhook"
    /\ IF config.webhook
       THEN \E ok \in BOOLEAN :
                /\ whLog' = Append(whLog, line)
                /\ firstFail' = NoteFail("webhook", ok)
                /\ pcDisp' = AfterWebhook(ok)
       ELSE /\ pcDisp' = "slack"
            /\ UNCHANGED <<whLog, firstFail>>
    /\ UNCHANGED <<envVars, pattern, config, position, queue, stop_event, pcMain,
                   observer, rd, line, taken, slLog, lateGets, histVars>>

\* A Slack part that tests the token only.
DispSlackTokenOnly ==
    /\ Alive
    /\ pcDisp = "slack"
    /\ IF config.slack_token
       THEN \E ok \in BOOLEAN :
                /\ slLog' = Append(slLog, line)
                /\ firstFail' = NoteFail("slack", ok)
                /\ pcDisp' = AfterSlack(ok)
       ELSE /\ pcDisp' = "check"
            /\ UNCHANGED <<slLog, firstFail>>
    /\ UNCHANGED <<envVars, pattern, config, position, queue, stop_event, pcMain,
                   observer, rd, line, taken, whLog, lateGets, histVars>>

\* lines 79-88 of send_alert: the Slack post, when both the token and the
\* channel are configured.
DispSlack ==
    /\ Alive
    /\ pcDisp = "slack"
    /\ IF config.slack_token /\ config.slack_channel
       THEN \E ok \in BOOLEAN :
                /\ slLog' = Append(slLog, line)
                /\ firstFail' = NoteFail("slack", ok)
                /\ pcDisp' = AfterSlack(ok)
       ELSE /\ pcDisp' = "check"
            /\ UNCHANGED <<slLog, firstFail>>
    /\ UNCHANGED <<envVars, pattern, config, position, queue, stop_event, pcMain,
                   observer, rd, line, taken, whLog, lateGets, histVars>>

\* ------------------------------------------------------------ specification

\* The destinations configured: none (a Slack token without a channel), the
\* webhook, Slack, and both.
Configs == {[webhook |-> w, slack_token |-> t, slack_channel |-> c] :
                <<w, t, c>> \in {<<FALSE, TRUE, FALSE>>, <<TRUE, FALSE, FALSE>>,
                                 <<FALSE, TRUE, TRUE>>, <<TRUE, TRUE, TRUE>>}}
NoDestination == [webhook |-> FALSE, slack_token |-> FALSE, slack_channel |-> FALSE]

InitWith(files, patterns, configs, budget) ==
    /\ exists \in BOOLEAN
    /\ file \in IF exists THEN files ELSE {<<>>}
    /\ pattern \in patterns
    /\ config \in configs
    /\ position = 0
    /\ queue = <<>>
    /\ stop_event = FALSE
    /\ pcMain = "check"
    /\ observer = "unstarted"
    /\ pendingCreated = 0
    /\ rd = [t \in Threads |-> Idle]
    /\ pcDisp = "unstarted"
    /\ line = [id |-> 0, text |-> <<>>]
    /\ envLeft = budget
    /\ pushed = <<>>
    /\ taken = <<>>
    /\ whLog = <<>>
    /\ slLog = <<>>
    /\ firstFail = [dest |-> "none", msg |-> 0]
    /\ writers = {}
    /\ calm = FALSE
    /\ ignored = FALSE
    /\ cut = -1
    /\ lateGets = 0

\* The detection side: the environment, main() and the two callers of
\* _read_new_lines. The dispatcher thread is started and takes no step, so
\* the queue holds every line put on it.
NextTail ==
    \/ \E c \in Alphabet : EnvAppend(c)
    \/ \E n \in 0..(Len(file) - 1) : EnvTruncate(n)
    \/ EnvDelete
    \/ \E f \in NewFiles : EnvCreate(f)
    \/ MainCheck
    \/ MainConstruct
    \/ MainObserverStart
    \/ MainPriming
    \/ MainInterrupt
    \/ MainObserverStop
    \/ MainObserverJoin
    \/ MainStopSet
    \/ MainStopJoin
    \/ \E p \in Paths : OnModified(p)
    \/ \E p \in Paths : OnCreated(p)
    \/ \E t \in Threads : OpenOk(t)
    \/ \E t \in Threads : OpenFails(t)
    \/ \E t \in Threads : Seek(t)
    \/ \E t \in Threads : ReadLine(t)
    \/ \E t \in Threads : ReadEof(t)
    \/ \E t \in Threads : Tell(t)

InitTail == InitWith(TailFiles, Patterns, {NoDestination}, MaxEnvOps)

SpecTail == InitTail /\ [][NextTail]_vars

\* The detection side for one log file and one pattern, with enough
\* environment operations for a created file to disappear again.
InitGone == InitWith({<<"E">>}, {<<"E">>}, {NoDestination}, GoneEnvOps)

SpecGone == InitGone /\ [][NextTail]_vars

\* The whole program.
Next ==
    \/ NextTail
    \/ DispCheck
    \/ DispGet
    \/ DispWebhook
    \/ DispSlack

Init == InitWith(WholeFiles, {<<"E">>}, Configs, WholeEnvOps)

Spec == Init /\ [][Next]_vars

\* The whole program with a dispatcher thread that is scheduled whenever it
\* can take a step, and posts that return (requests.post has timeout=5).
DispFair ==
    /\ WF_vars(DispCheck)
    /\ WF_vars(DispGet)
    /\ WF_vars(DispWebhook)
    /\ WF_vars(DispSlack)

SpecFair == Init /\ [][Next]_vars /\ DispFair

\* The whole program with a main thread that goes on through its finally
\* block (lines 137-139); nothing is assumed of the other two threads.
MainFair ==
    /\ WF_vars(MainObserverStop)
    /\ WF_vars(MainObserverJoin)
    /\ WF_vars(MainStopSet)
    /\ WF_vars(MainStopJoin)

SpecStop == Init /\ [][Next]_vars /\ MainFair

\* ------------------------------------------------------------------ claims

\* The lines of a text: the pieces between newlines, a last piece without a
\* newline included.
RECURSIVE LinesOf(_, _)
LinesOf(s, cur) ==
    IF s = <<>> THEN (IF cur = <<>> THEN <<>> ELSE <<cur>>)
    ELSE IF Head(s) = NL THEN <<cur>> \o LinesOf(Tail(s), <<>>)
    ELSE LinesOf(Tail(s), Append(cur, Head(s)))

Occurs(pat, l) ==
    \E i \in 0..(Len(l) - Len(pat)) : \A k \in 1..Len(pat) : l[i + k] = pat[k]

\* The lines of s in which pat occurs, in order.
MatchingLines(pat, s) == SelectSeq(LinesOf(s, <<>>), LAMBDA l : Occurs(pat, l))

Drop(s, n) == SubSeq(s, n + 1, Len(s))

\* C1: a call of _read_new_lines that starts at offset 0 and reads a file
\* that does not change while it is read has put on the queue, when the
\* iteration ends, exactly the lines of the file in which the pattern occurs,
\* once each and in file order.
C1_CycleFromZero ==
    \A t \in Threads :
        (rd[t].pc = "tell" /\ rd[t].stable /\ rd[t].start = 0)
            => rd[t].out = MatchingLines(pattern, HandleContent(t))

C1_Witness ==
    /\ rd["main"].pc = "tell" /\ rd["main"].stable /\ rd["main"].start = 0
    /\ pattern = <<"E">>
    /\ HandleContent("main") = <<"i", NL, "E", NL, "i", "E">>
    /\ rd["main"].out = << <<"E">>, <<"i", "E">> >>
    /\ queue = << [id |-> 1, text |-> <<"E">>], [id |-> 2, text |-> <<"i", "E">>] >>

SlackOn == config.slack_token /\ config.slack_channel

Range(f) == {f[i] : i \in DOMAIN f}

IsPrefix(a, b) == Len(a) <= Len(b) /\ a = SubSeq(b, 1, Len(a))

\* The messages whose send_alert call has returned.
Handled ==
    IF pcDisp \in {"webhook", "slack"} THEN SubSeq(taken, 1, Len(taken) - 1)
    ELSE taken

\* C2: whatever the outcome of each post, every message the dispatcher has
\* handled was posted to every configured destination, a message whose
\* webhook post is done is posted to Slack next, and the dispatcher thread is
\* in its loop, or has left it because the stop event is set: a failed post
\* neither skips the other destination nor ends the thread.
C2_Isolation ==
    /\ pcDisp \in {"unstarted", "check", "get", "webhook", "slack", "exited"}
    /\ pcDisp = "exited" => stop_event
    /\ config.webhook => Range(Handled) \subseteq Range(whLog)
    /\ SlackOn => Range(Handled) \subseteq Range(slLog)
    /\ (config.webhook /\ pcDisp = "slack") => line \in Range(whLog)

\* The webhook post of the first message failed; that message and the next
\* one were posted to both destinations.
C2_Witness ==
    /\ firstFail = [dest |-> "webhook", msg |-> 1]
    /\ pcDisp = "check"
    /\ Len(taken) = 2
    /\ whLog = taken
    /\ slLog = taken

\* C3: the messages got so far followed by the queued ones are the messages
\* put, in the order of the puts, under every interleaving; and each
\* destination is posted the messages in the order the dispatcher got them.
C3_Fifo ==
    /\ taken \o queue = [i \in 1..Len(pushed) |-> [id |-> i, text |-> pushed[i]]]
    /\ IsPrefix(whLog, taken)
    /\ IsPrefix(slLog, taken)

\* Two messages were delivered to both destinations while a third waited.
C3_Witness ==
    /\ Len(whLog) = 2
    /\ Len(slLog) = 2
    /\ queue # <<>>
    /\ rd["main"].pc # "idle"
    /\ rd["watch"].pc # "idle"

\* C4: a call of _read_new_lines for on_modified or for the priming that is
\* entered after another call has returned, the file being unchanged since
\* that call opened it, puts nothing on the queue and ends at the offset it
\* started from.
C4_Idempotent ==
    \A t \in Threads :
        (rd[t].pc = "tell" /\ rd[t].quiet /\ rd[t].kind \in {"modified", "priming"})
            => (rd[t].out = <<>> /\ rd[t].cursor = rd[t].start)

\* C5: position never decreases in a step, except in the step in which
\* on_created for the watched path resets it to 0.
C5_MonotonicOffset ==
    [][\/ position' >= position
       \/ /\ rd["watch"].pc = "idle"
          /\ rd'["watch"].kind = "created"
          /\ position' = 0]_vars

\* The priming call tailer.start() has returned.
WaitingForEvents ==
    pcMain \in {"sleep", "observer_stop", "observer_join", "stop_set", "stop_join", "done"}

\* C6: a callback for the watched path runs only after the priming call has
\* returned.
C6_PrimingFirst == rd["watch"].pc # "idle" => WaitingForEvents

\* C7: only the watch-callback thread assigns position.
C7_SingleWriter == writers \subseteq {"watch"}

\* C8: at most one call of _read_new_lines is in progress.
C8_Serialized == ~(rd["main"].pc # "idle" /\ rd["watch"].pc # "idle")

RECURSIVE IsSubseq(_, _)
IsSubseq(a, b) ==
    IF a = <<>> THEN TRUE
    ELSE IF b = <<>> THEN FALSE
    ELSE IF Head(a) = Head(b) THEN IsSubseq(Tail(a), Tail(b))
    ELSE IsSubseq(a, Tail(b))

\* C9: while the file is as it was at startup, the first line ever put on the
\* queue is the first line of the file in which the pattern occurs, whichever
\* of the priming call and a callback reads first; and once the priming call
\* has returned, every such line of the file has been put on the queue, in
\* file order.
C9_StartupReplay ==
    (envLeft = MaxEnvOps /\ MatchingLines(pattern, file) # <<>>) =>
        /\ pushed # <<>> => pushed[1] = MatchingLines(pattern, file)[1]
        /\ WaitingForEvents => IsSubseq(MatchingLines(pattern, file), pushed)

\* The priming call has returned; it and a callback both read the file from
\* offset 0, so each of its two matching lines was put twice.
C9_Witness ==
    /\ envLeft = MaxEnvOps
    /\ WaitingForEvents
    /\ pattern = <<"E">>
    /\ file = <<"i", NL, "E", NL, "i", "E">>
    /\ Len(pushed) = 4
    /\ pushed[1] = <<"E">>

\* C10: in the step in which a call of _read_new_lines returns, position
\* becomes the offset the handle has reached; for a call that read an
\* unchanged file from an offset within it, that is the end of the file, past
\* a last line without a newline, and the lines put are the matching ones of
\* the text from the starting offset on, that last line included.
C10_PartialLine ==
    [][\A t \in Threads :
          (rd[t].pc = "tell" /\ rd'[t].pc = "idle") =>
              /\ position' = rd[t].cursor
              /\ (rd[t].stable /\ rd[t].start <= Len(HandleContent(t))) =>
                    /\ position' = Len(HandleContent(t))
                    /\ rd[t].out =
                         MatchingLines(pattern, Drop(HandleContent(t), rd[t].start))]_vars

\* A call has returned after reading a file whose last line, "iE", has no
\* newline: the line was put on the queue and position is the file's length.
C10_Witness ==
    /\ rd["main"].pc = "idle" /\ rd["watch"].pc = "idle"
    /\ pattern = <<"i", "E">>
    /\ file = <<"i", NL, "E", NL, "i", "E">>
    /\ pushed = << <<"i", "E">> >>
    /\ position = 6

\* C11: a call of _read_new_lines made by on_created for the watched path
\* reads from offset 0, whatever position was before the event; when it has
\* read a file that did not change meanwhile it has put every matching line
\* of that file on the queue, and on its return position is the file's length.
C11_CreatedFromZero ==
    \A t \in Threads :
        (rd[t].kind = "created" /\ rd[t].pc \in {"iter", "tell"}) =>
            /\ rd[t].start = 0
            /\ (rd[t].pc = "tell" /\ rd[t].stable) =>
                  /\ rd[t].out = MatchingLines(pattern, HandleContent(t))
                  /\ rd[t].cursor = Len(HandleContent(t))

\* C12: the step in which on_modified or on_created is called for a path
\* other than the watched one changes neither position nor the queue nor the
\* dispatcher's state, starts no call of _read_new_lines and leaves the calls
\* in progress as they are.
C12_OtherPathsIgnored ==
    [][(~ignored /\ ignored') =>
          UNCHANGED <<position, queue, pushed, rd, pcDisp, line, taken, whLog,
                      slLog, stop_event, pendingCreated, file>>]_vars

\* An event for another path was delivered while a message was queued, the
\* dispatcher was delivering another one and position was not 0.
C12_Witness ==
    /\ ignored
    /\ queue # <<>>
    /\ pcDisp \in {"webhook", "slack"}
    /\ position > 0
    /\ rd["watch"].pc = "idle"

\* How many times the dispatcher got the message of the i-th put, and how
\* many times it is in the queue.
TimesTaken(i) == Cardinality({k \in DOMAIN taken : taken[k].id = i})
TimesQueued(i) == Cardinality({k \in DOMAIN queue : queue[k].id = i})

\* C13 as stated: when the dispatcher has left its loop, every message put
\* on the queue was got by it exactly once.
C13_ExactlyOnce ==
    pcDisp = "exited" => \A i \in 1..Len(pushed) : TimesTaken(i) = 1

\* C13, amended: at every moment each message put on the queue either was
\* got by the dispatcher once and is no longer queued, or was never got and
\* is still queued once; no message is got twice and none is lost otherwise.
C13_AtMostOnce ==
    \A i \in 1..Len(pushed) :
        /\ TimesTaken(i) <= 1
        /\ TimesTaken(i) + TimesQueued(i) = 1

\* The dispatcher has left its loop after getting one message, and another
\* message is still queued.
C13_Witness ==
    /\ pcDisp = "exited"
    /\ Len(taken) = 1
    /\ Len(queue) = 1
    /\ Len(pushed) = 2

\* How many times the message of the i-th put was posted to a destination.
TimesPosted(log, i) == Cardinality({k \in DOMAIN log : log[k].id = i})

\* C14: whatever the outcomes of the posts, a message is posted at most once
\* to the webhook and at most once to Slack, and a message the dispatcher got
\* is never in the queue again.
C14_NoRetry ==
    \A i \in 1..Len(pushed) :
        /\ TimesPosted(whLog, i) <= 1
        /\ TimesPosted(slLog, i) <= 1
        /\ TimesTaken(i) = 1 => TimesQueued(i) = 0

\* The Slack post of the first message failed; the dispatcher went on to a
\* second message and is back in its loop, each message posted once.
C14_Witness ==
    /\ firstFail = [dest |-> "slack", msg |-> 1]
    /\ Len(taken) = 2
    /\ Len(slLog) = 2
    /\ pcDisp = "get"

\* C15: when the stop event is set, the step the dispatcher takes from its
\* loop test leaves the loop whatever the queue holds; once it has left, it
\* gets and posts nothing more, so what is queued then stays queued.
C15_NoDrain ==
    [][/\ (stop_event /\ pcDisp = "check" /\ pcDisp' # "check") =>
              (pcDisp' = "exited" /\ queue' = queue)
       /\ pcDisp = "exited" =>
              /\ pcDisp' = "exited"
              /\ IsPrefix(queue, queue')
              /\ UNCHANGED <<taken, whLog, slLog>>]_vars

\* main() has returned: the dispatcher got and posted the first message and
\* left its loop with a second message still queued.
C15_Witness ==
    /\ pcMain = "done"
    /\ pcDisp = "exited"
    /\ stop_event
    /\ Len(taken) = 1
    /\ queue = << [id |-> 2, text |-> <<"E">>] >>
    /\ (config.webhook => Len(whLog) = 1)
    /\ (SlackOn => Len(slLog) = 1)

\* C16: while the process runs, a call of _read_new_lines that has opened the
\* file can always take its next step (seek, read a line and put it when it
\* matches, end the iteration, assign position), whatever the length of the
\* queue and wherever the dispatcher is: the put never waits.
C16_ProducerNeverBlocks ==
    \A t \in Threads :
        (Alive /\ HandleOpen(t)) =>
            ENABLED (Seek(t) \/ ReadLine(t) \/ ReadEof(t) \/ Tell(t))

\* A callback has put a line on a queue that already held one, while the
\* dispatcher was in a webhook post, and has come to its position update.
C16_Witness ==
    /\ pcDisp = "webhook"
    /\ config.webhook
    /\ Len(queue) >= 2
    /\ rd["watch"].pc = "tell"
    /\ rd["watch"].out # <<>>

\* C17: the dispatcher handles one message at a time: each destination's
\* posts are the messages got, in order, lacking at most the one in hand; a
\* message is posted to Slack only after its webhook post; and the step that
\* gets the next message is taken only when the previous one has been posted
\* to every configured destination.
C17_NoFanOut ==
    [][/\ IsPrefix(whLog, taken) /\ IsPrefix(slLog, taken)
       /\ config.webhook => Len(taken) - Len(whLog) \in {0, 1}
       /\ SlackOn => Len(taken) - Len(slLog) \in {0, 1}
       /\ (config.webhook /\ SlackOn) => IsPrefix(slLog, whLog)
       /\ taken' # taken =>
             /\ config.webhook => whLog = taken
             /\ SlackOn => slLog = taken
             /\ Len(taken') = Len(taken) + 1]_vars

\* Both destinations are configured; the second message is between its
\* webhook post and its Slack post, and a third message waits in the queue.
C17_Witness ==
    /\ config.webhook /\ SlackOn
    /\ pcDisp = "slack"
    /\ Len(taken) = 2
    /\ Len(whLog) = 2
    /\ Len(slLog) = 1
    /\ queue # <<>>

\* The message of the i-th put was got and posted to every configured
\* destination.
Delivered(i) ==
    /\ TimesTaken(i) = 1
    /\ config.webhook => TimesPosted(whLog, i) = 1
    /\ SlackOn => TimesPosted(slLog, i) = 1

Undelivered == {i \in 1..Len(pushed) : ~Delivered(i)}

\* C18: with a fairly scheduled dispatcher whose posts return, and as long
\* as the stop event is not set and the process runs, every message put on
\* the queue is eventually got and posted to every configured destination:
\* again and again all messages put so far are delivered.
C18_Drains == []<>(Undelivered = {} \/ stop_event \/ ~Alive)

\* The program waits for events, no stop requested: three messages were put
\* and all were posted to the webhook and to Slack.
C18_Witness ==
    /\ pcMain = "sleep"
    /\ ~stop_event
    /\ config.webhook /\ SlackOn
    /\ Len(pushed) = 3
    /\ Undelivered = {}
    /\ queue = <<>>

\* No webhook, and the Slack token or the Slack channel missing.
NoDestinations == ~config.webhook /\ ~SlackOn

\* C19: with no destination configured nothing is ever posted and no
\* delivery fails, the dispatcher stays in its loop until the stop event, and
\* (the dispatcher being scheduled fairly) again and again the queue is empty
\* with every message put so far got by the dispatcher and dropped, unless the
\* stop event is set or the process has ended.
C19_NoDestinationDrains ==
    /\ [](NoDestinations =>
            /\ whLog = <<>> /\ slLog = <<>>
            /\ firstFail.msg = 0
            /\ pcDisp \in {"unstarted", "check", "get", "webhook", "slack", "exited"}
            /\ pcDisp = "exited" => stop_event)
    /\ []<>(NoDestinations =>
              \/ queue = <<>> /\ Len(taken) = Len(pushed) /\ pcDisp \notin {"webhook", "slack"}
              \/ stop_event
              \/ ~Alive)

\* A Slack token without a channel: two messages were put and got, nothing
\* was posted, the queue is empty and the dispatcher is in its loop.
C19_Witness ==
    /\ NoDestinations
    /\ config.slack_token
    /\ Len(pushed) = 2
    /\ Len(taken) = 2
    /\ queue = <<>>
    /\ pcDisp = "check"
    /\ whLog = <<>> /\ slLog = <<>>
    /\ ~stop_event

\* The lifecycle state main() is in: Created until the priming call has
\* returned (a fatal startup error ends the process there), Running in the
\* sleep loop, Stopping in the finally block, Stopped when main() has
\* returned; numbered 0 to 3.
Lifecycle ==
    CASE pcMain \in {"check", "failed", "construct", "observer_start", "priming",
                     "in_priming", "crashed"} -> 0
      [] pcMain = "sleep" -> 1
      [] pcMain \in {"observer_stop", "observer_join", "stop_set", "stop_join"} -> 2
      [] pcMain = "done" -> 3

\* C20: every step leaves the lifecycle state as it is or moves it to the
\* next one; the observer is started only when the dispatcher thread has been
\* started, the priming call is entered only when both have been, the
\* lifecycle becomes Running in the step in which the priming call returns,
\* and a line is put on the queue only when the dispatcher thread has been
\* started.
C20_Lifecycle ==
    [][/\ Lifecycle' \in {Lifecycle, Lifecycle + 1}
       /\ (observer = "unstarted" /\ observer' # "unstarted") => pcDisp # "unstarted"
       /\ (rd["main"].pc = "idle" /\ rd'["main"].pc # "idle") =>
             (pcDisp # "unstarted" /\ observer # "unstarted")
       /\ (Lifecycle = 0 /\ Lifecycle' = 1) =>
             (rd["main"].pc = "tell" /\ rd'["main"].pc = "idle")
       /\ pushed' # pushed => pcDisp # "unstarted"]_vars

\* main() has run through the four lifecycle states: one line was put, got
\* by the dispatcher and posted; observer and dispatcher have stopped.
C20_Witness ==
    /\ pcMain = "done"
    /\ observer = "stopped"
    /\ pcDisp = "exited"
    /\ Len(pushed) = 1
    /\ Len(taken) = 1
    /\ queue = <<>>

\* C21: when main() starts to wait in the observer's join, both stop signals
\* have been given: the observer has been told to stop and the dispatcher's
\* stop event is set.
C21_SignalBeforeJoin ==
    pcMain = "observer_join" => (observer # "running" /\ stop_event)

\* C22: once the interrupt has taken main() into its finally block, main()
\* eventually returns, whatever the dispatcher and the watch thread do.
C22_ShutdownCompletes == (pcMain = "observer_stop") ~> (pcMain = "done")

\* main() has returned while the dispatcher was still in a webhook post and
\* a callback had not returned.
C22_Witness ==
    /\ pcMain = "done"
    /\ pcDisp = "webhook"
    /\ config.webhook
    /\ rd["watch"].pc # "idle"

\* C23: when the log file does not exist as main() tests for it, the run
\* fails there; and in the failed run no dispatcher thread and no observer
\* was started, no call of _read_new_lines was made and nothing was queued.
C23_MissingAtStartup ==
    [][/\ (pcMain = "check" /\ ~exists /\ pcMain' # "check") => pcMain' = "failed"
       /\ pcMain' = "failed" =>
             /\ pcDisp' = "unstarted"
             /\ observer' = "unstarted"
             /\ \A t \in Threads : rd'[t] = Idle
             /\ pushed' = <<>> /\ queue' = <<>> /\ taken' = <<>>
             /\ writers' = {}]_vars

\* The log file was deleted before main() tested for it: the run has failed.
C23_Witness ==
    /\ pcMain = "failed"
    /\ ~exists
    /\ envLeft < WholeEnvOps
    /\ pcDisp = "unstarted"
    /\ observer = "unstarted"

\* C24: a callback whose open finds the watched path missing ends the
\* observer thread and changes nothing else; from then on no callback runs
\* and a line is put only by a priming call still in progress; the dispatcher
\* leaves its loop only on the stop event and, scheduled fairly, delivers
\* every message put, unless the stop event is set or the process has ended.
C24_ReadFailureFatal ==
    /\ [][/\ (rd["watch"].pc = "open" /\ rd'["watch"].pc # "open" /\ ~exists) =>
                /\ observer' = "dead"
                /\ rd'["watch"] = Idle
                /\ UNCHANGED <<queue, pushed, position, pcDisp, stop_event, pcMain>>
          /\ observer = "dead" =>
                /\ observer' = "dead"
                /\ rd'["watch"] = Idle
                /\ pushed' # pushed => rd["main"].pc = "iter"
                /\ pcDisp' = "exited" => stop_event]_vars
    /\ (observer = "dead") ~> (Undelivered = {} \/ stop_event \/ ~Alive)

\* The file was deleted and a callback failed on it; the observer thread is
\* gone, main() still sleeps, and the message put before was delivered to
\* both destinations.
C24_Witness ==
    /\ observer = "dead"
    /\ ~exists
    /\ pcMain = "sleep"
    /\ config.webhook /\ SlackOn
    /\ Len(pushed) >= 1
    /\ Undelivered = {}

\* How many times x occurs in the sequence s.
Count(s, x) == Cardinality({k \in DOMAIN s : s[k] = x})

\* C25: for a file to which nothing has been done since startup (no append
\* yet, no truncation, no recreation, hence no on_created), no line is put on
\* the queue more often than it occurs among the matching lines of the file,
\* however the priming call and on_modified callbacks interleave.
C25_NoDuplicates ==
    envLeft = MaxEnvOps =>
        \A k \in DOMAIN pushed :
            Count(pushed, pushed[k]) <= Count(MatchingLines(pattern, file), pushed[k])

\* The file is the file of startup with only appends made to it: every
\* environment operation so far added one character.
AppendOnly ==
    /\ exists
    /\ \E f0 \in TailFiles :
          IsPrefix(f0, file) /\ Len(file) = Len(f0) + (MaxEnvOps - envLeft)

\* The text without its newlines.
StripNLs(s) == SelectSeq(s, LAMBDA c : c # NL)

\* C26 as stated: for a file that was only appended to, when a call has
\* returned with the file as it is now and no call is in progress, the
\* matching lines of the file have been put on the queue and nothing else
\* has: no line is missed and no fragment of a line is put.
C26_WholeLines ==
    (AppendOnly /\ calm /\ \A t \in Threads : rd[t].pc = "idle") =>
        Range(pushed) = Range(MatchingLines(pattern, file))

\* C26, amended: each iteration of a call tests the piece of text from the
\* handle's offset to the next newline, or to the end of the file when no
\* newline follows, on its own: the offset moves past the piece, and the
\* piece, its newline stripped, is put on the queue exactly when the pattern
\* occurs in it, also when it is only the beginning or only the rest of a
\* line written in several appends.
C26_PiecesTested ==
    [][\A t \in Threads :
          (rd[t].pc = "iter" /\ rd'[t].pc = "iter" /\ rd'[t].cursor # rd[t].cursor) =>
              LET content == HandleContent(t)
                  piece == StripNLs(SubSeq(content, rd[t].cursor + 1, rd'[t].cursor))
              IN  /\ rd'[t].cursor = NextLineEnd(content, rd[t].cursor)
                  /\ pushed' = IF Occurs(pattern, piece) THEN Append(pushed, piece)
                               ELSE pushed]_vars

\* The line "iE" was written as "i" and then "E" with a call between the two
\* appends: it matches the pattern "iE", neither piece does, both pieces were
\* read and nothing was put.
C26_Witness ==
    /\ AppendOnly
    /\ pattern = <<"i", "E">>
    /\ file = <<"i", "E">>
    /\ position = 2
    /\ pushed = <<>>
    /\ calm
    /\ envLeft = 0
    /\ \A t \in Threads : rd[t].pc = "idle"

\* C27: the file was truncated in place and its path never unlinked. When a
\* call made by on_modified that read the file unchanged returns, position
\* is at most the file's length; and when one character that is a matching
\* line of its own was appended after the truncation, the first such call
\* after the append has put a line on the queue.
C27_Truncation ==
    [][\A t \in Threads :
          (/\ rd[t].pc = "tell" /\ rd'[t].pc = "idle"
           /\ rd[t].kind = "modified" /\ rd[t].stable
           /\ cut >= 0) =>
              /\ position' <= Len(file)
              /\ (/\ Len(file) = cut + 1
                  /\ (cut = 0 \/ file[cut] = NL)
                  /\ Occurs(pattern, <<file[Len(file)]>>)
                  /\ ~rd[t].quiet) => rd[t].out # <<>>]_vars

\* C28: the dispatcher gets at most one message with the stop event set;
\* when it has left its loop, every message it got has been posted to every
\* configured destination; and once the stop event is set it leaves the loop
\* (the thread being scheduled and its posts returning), unless the process
\* ends first.
C28_AtMostOneAfterStop ==
    /\ [](/\ lateGets <= 1
          /\ pcDisp = "exited" =>
                /\ config.webhook => whLog = taken
                /\ SlackOn => slLog = taken)
    /\ stop_event ~> (pcDisp = "exited" \/ ~Alive)

\* The stop event was set while the dispatcher waited in get: it got one
\* more message, posted it, and left its loop with another message queued.
C28_Witness ==
    /\ lateGets = 1
    /\ pcDisp = "exited"
    /\ Alive
    /\ queue # <<>>
    /\ config.webhook /\ SlackOn
    /\ whLog = taken /\ slLog = taken

\* The messages whose texts are the lines put, numbered in the order of the
\* puts.
PushedMessages == {[id |-> i, text |-> pushed[i]] : i \in 1..Len(pushed)}

\* C29: every line put on the queue is a line without newline in which the
\* pattern occurs, and every message in the queue, in the dispatcher's hand
\* or posted to a destination is one of the lines put, text unchanged.
C29_NoSpurious ==
    /\ \A i \in 1..Len(pushed) :
          Occurs(pattern, pushed[i]) /\ NL \notin Range(pushed[i])
    /\ Range(queue) \subseteq PushedMessages
    /\ Range(taken) \subseteq PushedMessages
    /\ Range(whLog) \subseteq PushedMessages
    /\ Range(slLog) \subseteq PushedMessages
    /\ pcDisp \in {"webhook", "slack"} => line \in PushedMessages

\* The file holds a matching line and a line that does not match; both were
\* read, and only the matching one was put and posted to both destinations.
C29_Witness ==
    /\ file = <<"E", NL, "i">>
    /\ position = 3
    /\ pushed = << <<"E">> >>
    /\ whLog = << [id |-> 1, text |-> <<"E">>] >>
    /\ slLog = whLog
    /\ \A t \in Threads : rd[t].pc = "idle"

\* C30: the step in which a call of _read_new_lines fails to open the file
\* puts nothing on the queue and leaves the queue and position as they are;
\* when the call was made by on_created, position is 0 then.
C30_ReadFailureState ==
    [][\A t \in Threads :
          (rd[t].pc = "open" /\ rd'[t].pc = "idle") =>
              /\ queue' = queue
              /\ pushed' = pushed
              /\ position' = position
              /\ rd[t].kind = "created" => position' = 0]_vars

====
